---- MODULE Spec2Model ----
(***************************************************************************)
(* Verification model of the church-data backend (server.js and its        *)
(* earlier revisions): consolidateChurchData, scrapeYearData, the full     *)
(* scrape runs, loadChurchData with its one-minute cache, the per-year     *)
(* dataCache of /api/scrape-year, /api/scrape-and-save and                 *)
(* parseChurchesFromHTML.                                                  *)
(***************************************************************************)
EXTENDS Integers, Sequences, FiniteSets, TLC

VARIABLES
  \* ---- consolidateChurchData applied to an arbitrary mapping ----
  yearlyData,     \* the argument: year -> list of records
  keyOrder,       \* the years in the order in which they were inserted into it
  consolidated,   \* the returned entity list
  cpc,            \* "idle" | "call" | "done"
  \* ---- one scrapeYearData call ----
  year,           \* the argument of the call
  page,           \* let page
  hasMorePages,   \* let hasMorePages
  churches,       \* const churches = []
  spc,            \* "idle" | "loop" | "fetching" | "delay" | "returned" | "thrown"
  fetched,        \* page numbers for which fetch(url) was issued, in order
  served,         \* what the remote answered to each of them, in order
  fetchedAt,      \* the time at which each of them was issued, in order
  clock,          \* milliseconds spent in setTimeout since the call began
  scrapeLog,      \* how each scrapeYearData call ended, in order
  \* ---- a full scrape run (scrape-and-save, scrape-all, get-json-data) ----
  rpc,            \* "idle" | "loop" | "scraping" | "consolidate" | "done"
  yearIdx,        \* position of the for..of loop in years
  allData,        \* const allData = {}
  errors,         \* const errors = []
  runResult,      \* consolidateChurchData(allData) of the run
  yearsCovered,   \* dataToSave.yearsCovered
  \* ---- the running server ----
  revision,       \* which revision of server.js runs: "json-storage" | "scrape-cache"
  now,            \* Date.now()
  ticks,          \* how often the clock advanced
  file,           \* church-data.json
  cachedData,     \* let cachedData
  lastLoaded,     \* let lastLoaded
  reqs,           \* the /api/get-data and the /api/data-info request
  save,           \* the /api/scrape-and-save request
  saves,          \* scrape-and-save requests begun so far
  lastSaved,      \* payload of the scrape-and-save that last wrote and cleared
  dataCache,      \* const dataCache = new Map()
  yreqs,          \* the /api/scrape-year/:year requests
  \* ---- one parseChurchesFromHTML call ----
  html,           \* the argument: the matched anchors of the page, in document order
  index,          \* index of the next .each callback
  parseChurches,  \* const churches = [] of the call
  parsed,         \* the returned list
  ppc             \* "idle" | "each" | "returned"

consVars   == <<yearlyData, keyOrder, consolidated, cpc>>
scrapeVars == <<year, page, hasMorePages, churches, spc, fetched, served,
                fetchedAt, clock, scrapeLog>>
runVars    == <<rpc, yearIdx, allData, errors, runResult, yearsCovered>>
serverVars == <<revision, now, ticks, file, cachedData, lastLoaded, reqs, save,
                saves, lastSaved, dataCache, yreqs>>
parseVars  == <<html, index, parseChurches, parsed, ppc>>
vars == <<consVars, scrapeVars, runVars, serverVars, parseVars>>

Null == "null"

(***************************************************************************)
(* Bounds of the model.                                                    *)
(***************************************************************************)
NumConsYears == 3      \* years in the mappings given to consolidateChurchData
NumYears     == 4      \* leading years of the configured list a full run scrapes
RemotePages  == 2      \* pages with records the remote holds per year in a full run
MaxTicks     == 3      \* clock advances of the running server
MaxSaves     == 1      \* scrape-and-save requests of the running server
NumYearReqs  == 2      \* concurrent scrape-year requests
NumVersions  == 2      \* distinct record lists the remote serves for a year
MaxPerYear   == 2      \* records per year in those mappings
MaxRank      == 2      \* rankings 1..MaxRank in those mappings

MaxLead      == 2      \* anchors before the examined anchor of a page
MaxTrail     == 1      \* anchors after it
MaxTexts     == 2      \* elements after the link in the examined anchor's container
ManyAnchors  == 100    \* anchors before the examined anchor of a long page

Names == {"A", "B"}

(***************************************************************************)
(* Strings are sequences of one-character strings, so that parseInt, trim  *)
(* and the regular expressions can be computed on them.                    *)
(***************************************************************************)
Digits == <<"0", "1", "2", "3", "4", "5", "6", "7", "8", "9">>

IsDigit(c) == \E i \in 1..10 : Digits[i] = c
DigitValue(c) == (CHOOSE i \in 1..10 : Digits[i] = c) - 1

\* \s
IsSpace(c) == c = " "

\* the number a run of decimal digits denotes
RECURSIVE DecimalValue(_)
DecimalValue(t) ==
  IF t = <<>> THEN 0
  ELSE 10 * DecimalValue(SubSeq(t, 1, Len(t) - 1)) + DigitValue(t[Len(t)])

\* the longest prefix of t made of digits
RECURSIVE DigitPrefix(_)
DigitPrefix(t) ==
  IF t = <<>> \/ ~IsDigit(Head(t)) THEN <<>> ELSE <<Head(t)>> \o DigitPrefix(Tail(t))

RECURSIVE TrimStart(_)
TrimStart(t) == IF t # <<>> /\ IsSpace(Head(t)) THEN TrimStart(Tail(t)) ELSE t

RECURSIVE TrimEnd(_)
TrimEnd(t) ==
  IF t # <<>> /\ IsSpace(t[Len(t)]) THEN TrimEnd(SubSeq(t, 1, Len(t) - 1)) ELSE t

\* String.prototype.trim
Trim(t) == TrimEnd(TrimStart(t))

NaN == -999999

\* parseInt(string): leading white space is skipped, an optional sign and
\* the longest run of digits are read, what follows is ignored; NaN when
\* there is no digit to read
ParseInt(t) ==
  LET u      == TrimStart(t)
      signed == u # <<>> /\ Head(u) \in {"-", "+"}
      body   == IF signed THEN Tail(u) ELSE u
      digits == DigitPrefix(body)
  IN IF digits = <<>> THEN NaN
     ELSE IF signed /\ Head(u) = "-" THEN 0 - DecimalValue(digits)
     ELSE DecimalValue(digits)

\* a < b on numbers: false when either side is NaN
Less(a, b) == a # NaN /\ b # NaN /\ a < b

\* [A-Z], [a-z] and \w
Upper == {"A", "B", "C", "D", "E", "F", "G", "H", "I", "J", "K", "L", "M",
          "N", "O", "P", "Q", "R", "S", "T", "U", "V", "W", "X", "Y", "Z"}
Lower == {"a", "b", "c", "d", "e", "f", "g", "h", "i", "j", "k", "l", "m",
          "n", "o", "p", "q", "r", "s", "t", "u", "v", "w", "x", "y", "z"}
IsWordChar(c) == IsDigit(c) \/ c \in Upper \/ c \in Lower \/ c = "_"

\* String.prototype.includes for a one-character needle
Includes(t, c) == \E i \in 1..Len(t) : t[i] = c

\* text.match(/^\d+$/)
AllDigits(t) == t # <<>> /\ \A i \in 1..Len(t) : IsDigit(t[i])

\* the longest prefix of t made of word characters
RECURSIVE WordPrefix(_)
WordPrefix(t) ==
  IF t = <<>> \/ ~IsWordChar(Head(t)) THEN <<>> ELSE <<Head(t)>> \o WordPrefix(Tail(t))

\* text.match(/\b(\d{3,6})\b/)[1]: the leftmost run of 3 to 6 digits with a
\* word boundary on both sides, that is the leftmost word made of 3 to 6
\* digits; the empty string stands for no match
RECURSIVE NumberMatch(_)
NumberMatch(t) ==
  IF t = <<>> THEN <<>>
  ELSE IF ~IsWordChar(Head(t)) THEN NumberMatch(Tail(t))
  ELSE LET w == WordPrefix(t)
       IN IF AllDigits(w) /\ Len(w) >= 3 /\ Len(w) <= 6 THEN w
          ELSE NumberMatch(SubSeq(t, Len(w) + 1, Len(t)))

\* /^[A-Za-z\s]+,\s*[A-Z]{2,}$/.test(text): the first class cannot hold a
\* comma, so the comma of the pattern is the first comma of the text
LocationPattern(t) ==
  \E k \in 2..Len(t) :
    /\ t[k] = ","
    /\ \A i \in 1..(k - 1) : t[i] \in Upper \/ t[i] \in Lower \/ IsSpace(t[i])
    /\ LET state == TrimStart(SubSeq(t, k + 1, Len(t)))
       IN Len(state) >= 2 /\ \A i \in 1..Len(state) : state[i] \in Upper

\* parts[parts.length - 1] of text.split('-'): what follows the last dash
RECURSIVE LastPart(_)
LastPart(t) ==
  IF ~Includes(t, "-") THEN t
  ELSE LastPart(SubSeq(t, (CHOOSE i \in 1..Len(t) : t[i] = "-") + 1, Len(t)))

(***************************************************************************)
(* Array.prototype.sort with a comparator (a, b) => key(a) - key(b) over   *)
(* integer keys: the stable ascending sort.  keys[i] is the key of seq[i]; *)
(* an element moves to the position given by the number of elements that   *)
(* must precede it.                                                        *)
(***************************************************************************)
SortByKey(seq, keys) ==
  LET n == Len(seq)
      pos(i) == 1 + Cardinality({j \in 1..n :
                       \/ keys[j] < keys[i]
                       \/ keys[j] = keys[i] /\ j < i})
  IN [k \in 1..n |-> seq[CHOOSE i \in 1..n : pos(i) = k]]

(***************************************************************************)
(* Object.entries(yearlyData): integer-like keys are enumerated in         *)
(* ascending numeric order, whatever the order of their insertion.         *)
(***************************************************************************)
\* variant: the keys are enumerated in the order of their insertion
ObjectKeysAsInserted(obj) == keyOrder

ObjectKeys(obj) ==
  LET ks == DOMAIN obj
      n  == Cardinality(ks)
  IN [k \in 1..n |-> CHOOSE y \in ks : Cardinality({z \in ks : z < y}) = k - 1]

(***************************************************************************)
(* consolidateChurchData: the body of churches.forEach.                    *)
(***************************************************************************)
MapHas(churchMap, name) == \E i \in 1..Len(churchMap) : churchMap[i].name = name

\* variant: every record of a name sets the entity's location and pastor
AddChurchLastSeen(churchMap, yr, church) ==
  LET m1 == IF MapHas(churchMap, church.name)
            THEN churchMap
            ELSE Append(churchMap, [name     |-> church.name,
                                    location |-> church.location,
                                    pastor   |-> church.pastor,
                                    data     |-> <<>>])
      i  == CHOOSE k \in 1..Len(m1) : m1[k].name = church.name
  IN [m1 EXCEPT ![i].location = church.location,
                ![i].pastor = church.pastor,
                ![i].data = Append(@, [year       |-> yr,
                                       attendance |-> church.attendance,
                                       ranking    |-> church.ranking])]

AddChurch(churchMap, yr, church) ==
  LET m1 == IF MapHas(churchMap, church.name)
            THEN churchMap
            ELSE Append(churchMap, [name     |-> church.name,
                                    location |-> church.location,
                                    pastor   |-> church.pastor,
                                    data     |-> <<>>])
      i  == CHOOSE k \in 1..Len(m1) : m1[k].name = church.name
  IN [m1 EXCEPT ![i].data = Append(@, [year       |-> yr,
                                       attendance |-> church.attendance,
                                       ranking    |-> church.ranking])]

RECURSIVE AddYear(_, _, _)
AddYear(churchMap, yr, list) ==
  IF list = <<>> THEN churchMap
  ELSE AddYear(AddChurch(churchMap, yr, Head(list)), yr, Tail(list))

RECURSIVE GroupByName(_, _, _)
GroupByName(churchMap, obj, keys) ==
  IF keys = <<>> THEN churchMap
  ELSE GroupByName(AddYear(churchMap, Head(keys), obj[Head(keys)]), obj, Tail(keys))

MinEntries == 3

HasEnoughData(church) == Len(church.data) >= MinEntries

EntryYear(entry) == entry.year

SortData(church) ==
  [church EXCEPT !.data = SortByKey(@, [j \in 1..Len(@) |-> EntryYear(@[j])])]

\* variant: compares the first series entry instead of the last
FirstRanking(church) == church.data[1].ranking

LatestRanking(church) == church.data[Len(church.data)].ranking

\* the function for a given enumeration of the keys
ConsolidateEntries(obj, keys) ==
  LET churchMap == GroupByName(<<>>, obj, keys)
      kept      == SelectSeq(churchMap, HasEnoughData)
      mapped    == [i \in 1..Len(kept) |-> SortData(kept[i])]
  IN SortByKey(mapped, [i \in 1..Len(mapped) |-> LatestRanking(mapped[i])])

consolidateChurchData(obj) == ConsolidateEntries(obj, ObjectKeys(obj))

(***************************************************************************)
(* Inputs of consolidateChurchData.                                        *)
(***************************************************************************)
FirstConsYear == 2015
ConsYears == FirstConsYear..(FirstConsYear + NumConsYears - 1)

ConsRecords == [name : Names, location : {"Location not found"},
                pastor : {"Pastor not found"}, attendance : {Null},
                ranking : 1..MaxRank]

SeqsUpTo(S, n) == UNION {[1..k -> S] : k \in 0..n}

YearsAscending == [k \in 1..NumConsYears |-> FirstConsYear + k - 1]

ParseIdle == /\ html = <<>> /\ index = 0 /\ parseChurches = <<>> /\ parsed = <<>>
             /\ ppc = "idle"
ConsIdle == /\ yearlyData = <<>> /\ keyOrder = <<>> /\ consolidated = <<>> /\ cpc = "idle"
ScrapeIdle == /\ year = 0 /\ page = 0 /\ hasMorePages = FALSE /\ churches = <<>>
              /\ spc = "idle" /\ fetched = <<>> /\ served = <<>>
              /\ fetchedAt = <<>> /\ clock = 0 /\ scrapeLog = <<>>
RunIdle == /\ rpc = "idle" /\ yearIdx = 0 /\ allData = <<>> /\ errors = <<>>
           /\ runResult = <<>> /\ yearsCovered = <<>>

(***************************************************************************)
(* State of the server process and of the data file.                       *)
(***************************************************************************)
NullData == -1     \* null where a payload is expected
NullTime == -1     \* null where a timestamp is expected

Endpoints == {"get-data", "data-info"}
YearReqs  == 1..NumYearReqs
\* req.params.year of the requests that arrive
YearParams == {<<"2", "0", "1", "4">>, <<"2", "0", "1", "5">>,
               <<"2", "0", "2", "5">>, <<"a", "b", "c">>}

NoFile        == [state |-> "none", payload |-> NullData]
PartialFile   == [state |-> "partial", payload |-> NullData]
WholeFile(d)  == [state |-> "whole", payload |-> d]
OldPayload    == 0   \* the payload of a church-data.json the process starts with

NoResponse == [status |-> 0, payload |-> NullData, how |-> "none"]
IdleReq    == [pc |-> "idle", data |-> NullData, after |-> NullData, resp |-> NoResponse]
IdleSave   == [pc |-> "idle", payload |-> NullData, outcome |-> "none", status |-> 0]
NoEntry    == [data |-> NullData, timestamp |-> NullTime]
IdleYearReq == [pc |-> "idle", param |-> <<>>, year |-> 0, resp |-> NoResponse]

ServerIdle ==
  /\ revision = "none" /\ now = 0 /\ ticks = 0 /\ file = NoFile
  /\ cachedData = NullData /\ lastLoaded = NullTime
  /\ reqs = [e \in Endpoints |-> IdleReq]
  /\ save = IdleSave /\ saves = 0 /\ lastSaved = NullData
  /\ dataCache = [y \in {} |-> NoEntry]
  /\ yreqs = [q \in YearReqs |-> IdleYearReq]

InitCons ==
  /\ yearlyData \in [ConsYears -> SeqsUpTo(ConsRecords, MaxPerYear)]
  /\ keyOrder = YearsAscending
  /\ consolidated = <<>>
  /\ cpc = "call"
  /\ ScrapeIdle /\ RunIdle /\ ServerIdle /\ ParseIdle

Consolidate ==
  /\ cpc = "call"
  /\ consolidated' = consolidateChurchData(yearlyData)
  /\ cpc' = "done"
  /\ UNCHANGED <<yearlyData, keyOrder, scrapeVars, runVars, serverVars, parseVars>>

NextCons == Consolidate

SpecCons == InitCons /\ [][NextCons]_vars

(***************************************************************************)
(* consolidateChurchData applied to mappings whose years were inserted in  *)
(* any order and whose records differ in location and pastor.  A year      *)
(* lists a name at most once here and all rankings are equal, so that the  *)
(* order of the entities is the order in which their names were first met. *)
(***************************************************************************)
Places == {[location |-> "Dallas, TX", pastor |-> "Bob"],
           [location |-> "Reno, NV", pastor |-> "Ann"]}

PlacedRecords ==
  {[name |-> n, location |-> p.location, pastor |-> p.pastor,
    attendance |-> Null, ranking |-> 1] : n \in Names, p \in Places}

OnePerName(list) ==
  \A i \in 1..Len(list), j \in 1..Len(list) : i < j => list[i].name # list[j].name

PlacedLists == {l \in SeqsUpTo(PlacedRecords, Cardinality(Names)) : OnePerName(l)}

\* allData[year] = churches, for the years in any order
InsertionOrders ==
  {o \in [1..NumConsYears -> ConsYears] :
     \A i \in 1..NumConsYears, j \in 1..NumConsYears : i # j => o[i] # o[j]}

InitInsert ==
  /\ yearlyData \in [ConsYears -> PlacedLists]
  /\ keyOrder \in InsertionOrders
  /\ consolidated = <<>>
  /\ cpc = "call"
  /\ ScrapeIdle /\ RunIdle /\ ServerIdle /\ ParseIdle

SpecInsert == InitInsert /\ [][NextCons]_vars

(***************************************************************************)
(* scrapeYearData: one call.  The remote's answer to a fetch is an input:  *)
(* "threw" (fetch or response.text() rejected), "notok" (!response.ok) or  *)
(* the list parseChurchesFromHTML makes of the page (possibly empty).      *)
(***************************************************************************)
MaxPages == 10
DelayMs  == 500

Rec(n, r) == [name |-> n, location |-> "Location not found",
              pastor |-> "Pastor not found", attendance |-> Null, ranking |-> r]

\* Non-empty pages the remote may serve.  A single call is explored with two
\* candidate pages for every fetch; inside a full run the remote holds
\* RemotePages pages per year, one list each.
PageLists(pg) ==
  IF rpc = "idle"
  THEN {<<Rec("A", 1)>>, <<Rec("A", 1), Rec("B", 2)>>}
  ELSE IF pg > RemotePages THEN {}
  ELSE IF pg = 1 THEN {<<Rec("A", 1)>>} ELSE {<<Rec("B", 2)>>}

Failed(why)       == [status |-> why, churches |-> <<>>]
Page(pageChurches) == [status |-> "ok", churches |-> pageChurches]

\* variant: the cap admits one page more
LoopCondOffByOne(more, pg) == more /\ pg <= MaxPages + 1

\* while (hasMorePages && page <= 10)
LoopCond(more, pg) == more /\ pg <= MaxPages

\* variant: a failure of page 1 is treated as the end of the pages too
OnFailureAlwaysBreak(pg) == "returned"

\* if (page === 1) throw ... else break, in both the !response.ok branch and
\* the catch block
OnFailure(pg) == IF pg = 1 THEN "thrown" ELSE "returned"

\* variant: an empty page does not stop the loop
OnPageNoStop(list, pageChurches, pg) ==
  [hasMorePages |-> TRUE, churches |-> list \o pageChurches, page |-> pg + 1]

\* variant: a page with records is appended without page++
OnPageNoAdvance(list, pageChurches, pg) ==
  IF Len(pageChurches) = 0
  THEN [hasMorePages |-> FALSE, churches |-> list, page |-> pg]
  ELSE [hasMorePages |-> TRUE, churches |-> list \o pageChurches, page |-> pg]

\* if (pageChurches.length === 0) hasMorePages = false
\* else { churches.push(...pageChurches); page++ }
OnPage(list, pageChurches, pg) ==
  IF Len(pageChurches) = 0
  THEN [hasMorePages |-> FALSE, churches |-> list, page |-> pg]
  ELSE [hasMorePages |-> TRUE, churches |-> list \o pageChurches, page |-> pg + 1]

\* variant: the loop goes on without waiting
AfterPageNoDelay == "loop"

\* await new Promise(resolve => setTimeout(resolve, 500)) follows every page
\* that was fetched and parsed
AfterPage == "delay"

CallScrapeYearData(y) ==
  /\ year' = y
  /\ page' = 1
  /\ hasMorePages' = TRUE
  /\ churches' = <<>>
  /\ fetched' = <<>>
  /\ served' = <<>>
  /\ fetchedAt' = <<>>
  /\ clock' = 0
  /\ spc' = "loop"

EndOfCall(how, list) == [year |-> year, how |-> how, churches |-> list]

\* the loop test succeeds and fetch(url) is issued
Fetch ==
  /\ spc = "loop"
  /\ LoopCond(hasMorePages, page)
  /\ fetched' = Append(fetched, page)
  /\ fetchedAt' = Append(fetchedAt, clock)
  /\ spc' = "fetching"
  /\ UNCHANGED <<year, page, hasMorePages, churches, served, clock, scrapeLog>>

\* the loop test fails: return churches
Return ==
  /\ spc = "loop"
  /\ ~LoopCond(hasMorePages, page)
  /\ spc' = "returned"
  /\ scrapeLog' = Append(scrapeLog, EndOfCall("returned", churches))
  /\ UNCHANGED <<year, page, hasMorePages, churches, fetched, served, fetchedAt, clock>>

\* the fetch fails: throw on page 1, break (and return churches) otherwise
FetchFailed ==
  /\ spc = "fetching"
  /\ \E why \in {"threw", "notok"} :
       /\ served' = Append(served, Failed(why))
       /\ spc' = OnFailure(page)
       /\ scrapeLog' = Append(scrapeLog, EndOfCall(OnFailure(page), churches))
  /\ UNCHANGED <<year, page, hasMorePages, churches, fetched, fetchedAt, clock>>

\* the fetch succeeds and the page is parsed
PageParsed ==
  /\ spc = "fetching"
  /\ \E pageChurches \in {<<>>} \cup PageLists(page) :
       LET r == OnPage(churches, pageChurches, page) IN
       /\ served' = Append(served, Page(pageChurches))
       /\ hasMorePages' = r.hasMorePages
       /\ churches' = r.churches
       /\ page' = r.page
  /\ spc' = AfterPage
  /\ UNCHANGED <<year, fetched, fetchedAt, clock, scrapeLog>>

\* the 500 ms timer fires
Delay ==
  /\ spc = "delay"
  /\ clock' = clock + DelayMs
  /\ spc' = "loop"
  /\ UNCHANGED <<year, page, hasMorePages, churches, fetched, served, fetchedAt, scrapeLog>>

ScrapeStep == Fetch \/ Return \/ FetchFailed \/ PageParsed \/ Delay

InitScrape ==
  /\ year = 2015 /\ page = 1 /\ hasMorePages = TRUE /\ churches = <<>>
  /\ spc = "loop" /\ fetched = <<>> /\ served = <<>> /\ fetchedAt = <<>>
  /\ clock = 0 /\ scrapeLog = <<>>
  /\ ConsIdle /\ RunIdle /\ ServerIdle /\ ParseIdle

NextScrape ==
  \/ Fetch /\ UNCHANGED <<consVars, runVars, serverVars, parseVars>>
  \/ Return /\ UNCHANGED <<consVars, runVars, serverVars, parseVars>>
  \/ FetchFailed /\ UNCHANGED <<consVars, runVars, serverVars, parseVars>>
  \/ PageParsed /\ UNCHANGED <<consVars, runVars, serverVars, parseVars>>
  \/ Delay /\ UNCHANGED <<consVars, runVars, serverVars, parseVars>>

SpecScrape == InitScrape /\ [][NextScrape]_vars

\* every await of the call is resumed: the fetch settles and the timer fires
FairScrape == SpecScrape /\ WF_vars(NextScrape)

(***************************************************************************)
(* A full scrape run: the for (const year of years) loop of                *)
(* /api/scrape-and-save, /api/scrape-all and /api/get-json-data, followed  *)
(* by consolidateChurchData(allData).                                      *)
(***************************************************************************)
FirstYear == 2015
years == [i \in 1..NumYears |-> FirstYear + i - 1]

\* allData[year] = churches
SetKey(obj, k, v) == [x \in (DOMAIN obj) \cup {k} |-> IF x = k THEN v ELSE obj[x]]

\* variant: a year counts as covered as soon as its scrape returned
IsCoveredIfReturned(y) == y \in DOMAIN allData

\* years.filter(year => allData[year] && allData[year].length > 0)
IsCovered(y) == y \in DOMAIN allData /\ Len(allData[y]) > 0
YearsCovered == SelectSeq(years, IsCovered)

\* variant: a failed year ends the loop
AfterCatchAbort(i) == Len(years) + 1

\* after the catch block the for..of loop goes on with the next year
AfterCatch(i) == i + 1

RunNextYear ==
  /\ rpc = "loop"
  /\ yearIdx <= Len(years)
  /\ CallScrapeYearData(years[yearIdx])
  /\ rpc' = "scraping"
  /\ UNCHANGED <<scrapeLog, yearIdx, allData, errors, runResult, yearsCovered, consVars, serverVars, parseVars>>

RunScraped ==
  /\ rpc = "scraping"
  /\ spc = "returned"
  /\ allData' = SetKey(allData, year, churches)
  /\ yearIdx' = yearIdx + 1
  /\ rpc' = "loop"
  /\ spc' = "idle"
  /\ UNCHANGED <<year, page, hasMorePages, churches, fetched, served, fetchedAt,
                 clock, scrapeLog, errors, runResult, yearsCovered, consVars, serverVars, parseVars>>

RunFailed ==
  /\ rpc = "scraping"
  /\ spc = "thrown"
  /\ errors' = Append(errors, [year |-> year, error |-> served[Len(served)].status])
  /\ yearIdx' = AfterCatch(yearIdx)
  /\ rpc' = "loop"
  /\ spc' = "idle"
  /\ UNCHANGED <<year, page, hasMorePages, churches, fetched, served, fetchedAt,
                 clock, scrapeLog, allData, runResult, yearsCovered, consVars, serverVars, parseVars>>

RunConsolidate ==
  /\ rpc = "loop"
  /\ yearIdx > Len(years)
  /\ runResult' = consolidateChurchData(allData)
  /\ yearsCovered' = YearsCovered
  /\ rpc' = "done"
  /\ UNCHANGED <<scrapeVars, yearIdx, allData, errors, consVars, serverVars, parseVars>>

InitRun ==
  /\ rpc = "loop" /\ yearIdx = 1 /\ allData = <<>> /\ errors = <<>>
  /\ runResult = <<>> /\ yearsCovered = <<>>
  /\ ScrapeIdle /\ ConsIdle /\ ServerIdle /\ ParseIdle

NextRun ==
  \/ RunNextYear
  \/ RunScraped
  \/ RunFailed
  \/ RunConsolidate
  \/ Fetch /\ UNCHANGED <<consVars, runVars, serverVars, parseVars>>
  \/ Return /\ UNCHANGED <<consVars, runVars, serverVars, parseVars>>
  \/ FetchFailed /\ UNCHANGED <<consVars, runVars, serverVars, parseVars>>
  \/ PageParsed /\ UNCHANGED <<consVars, runVars, serverVars, parseVars>>
  \/ Delay /\ UNCHANGED <<consVars, runVars, serverVars, parseVars>>

SpecRun == InitRun /\ [][NextRun]_vars

(***************************************************************************)
(* The running server.  Two revisions of server.js exist: the one with     *)
(* JSON storage (church-data.json, cachedData/lastLoaded, /api/get-data,   *)
(* /api/data-info, /api/scrape-and-save) and the earlier one with the      *)
(* per-year dataCache (/api/scrape-year/:year).  A process runs one of     *)
(* them.  Payloads are identified by a number: OldPayload is the content   *)
(* of a data file found at start, n is the dataToSave of the n-th          *)
(* scrape-and-save, and 1..NumVersions are the lists a year's scrape may   *)
(* return.  loadChurchData is modelled as the function the handlers call  *)
(* (its declaration is at module level in the other copy of the JSON       *)
(* storage revision; in server.js the same text sits inside                *)
(* scrapeYearData).                                                        *)
(***************************************************************************)
LoadTtl       == 60000
CacheDuration == 24 * 60 * 60 * 1000
MinYear       == 2015
MaxYear       == 2024

\* the clock advances by half the lifetime of the revision's cache
ClockStep == IF revision = "json-storage" THEN LoadTtl \div 2 ELSE CacheDuration \div 2

Tick ==
  /\ ticks < MaxTicks
  /\ ticks' = ticks + 1
  /\ now' = now + ClockStep
  /\ UNCHANGED <<revision, file, cachedData, lastLoaded, reqs, save, saves,
                 lastSaved, dataCache, yreqs>>

\* variant: an entry whose age equals the lifetime still counts as fresh
CacheFreshInclusive(data, at, t) ==
  data # NullData /\ at # NullTime /\ at # 0 /\ t - at <= LoadTtl

\* cachedData && lastLoaded && (Date.now() - lastLoaded) < 60000
CacheFresh(data, at, t) ==
  data # NullData /\ at # NullTime /\ at # 0 /\ t - at < LoadTtl

\* what the handler answers once loadChurchData has returned data
Respond(endpoint, data, how) ==
  IF endpoint = "get-data" /\ data = NullData
  THEN [status |-> 404, payload |-> NullData, how |-> how]
  ELSE [status |-> 200, payload |-> data, how |-> how]

Responded(e, data, how) ==
  [pc |-> "responded", data |-> NullData, after |-> reqs[e].after,
   resp |-> Respond(e, data, how)]

\* a request arrives and loadChurchData runs up to its first await
LoadStart(e) ==
  /\ revision = "json-storage"
  /\ reqs[e].pc \in {"idle", "responded"}
  /\ reqs' = [reqs EXCEPT ![e] =
       IF CacheFresh(cachedData, lastLoaded, now)
       THEN [pc |-> "responded", data |-> NullData, after |-> lastSaved,
             resp |-> Respond(e, cachedData, "cached")]
       ELSE [pc |-> "access", data |-> NullData, after |-> lastSaved,
             resp |-> NoResponse]]
  /\ UNCHANGED <<revision, now, ticks, file, cachedData, lastLoaded, save, saves,
                 lastSaved, dataCache, yreqs>>

\* await fs.access(DATA_FILE).then(() => true).catch(() => false)
LoadAccess(e) ==
  /\ reqs[e].pc = "access"
  /\ \E fileExists \in (IF file.state = "none" THEN {FALSE} ELSE {TRUE, FALSE}) :
       reqs' = [reqs EXCEPT ![e] =
         IF fileExists THEN [@ EXCEPT !.pc = "read"]
         ELSE Responded(e, NullData, "nofile")]
  /\ UNCHANGED <<revision, now, ticks, file, cachedData, lastLoaded, save, saves,
                 lastSaved, dataCache, yreqs>>

\* await fs.readFile(DATA_FILE, 'utf8') and JSON.parse(fileContent): the
\* read may be rejected, and a file that is being written does not parse;
\* the catch block returns null in both cases
LoadRead(e) ==
  /\ reqs[e].pc = "read"
  /\ \E readOk \in BOOLEAN :
       reqs' = [reqs EXCEPT ![e] =
         IF ~readOk THEN Responded(e, NullData, "failed")
         ELSE IF file.state = "whole"
         THEN [@ EXCEPT !.pc = "store", !.data = file.payload]
         ELSE Responded(e, NullData, "unparsable")]
  /\ UNCHANGED <<revision, now, ticks, file, cachedData, lastLoaded, save, saves,
                 lastSaved, dataCache, yreqs>>

\* cachedData = data; lastLoaded = Date.now(); return data
LoadStore(e) ==
  /\ reqs[e].pc = "store"
  /\ cachedData' = reqs[e].data
  /\ lastLoaded' = now
  /\ reqs' = [reqs EXCEPT ![e] = Responded(e, reqs[e].data, "loaded")]
  /\ UNCHANGED <<revision, now, ticks, file, save, saves, lastSaved, dataCache, yreqs>>

\* res.writeHead(200, ...) precedes the scraping
StreamStatus == 200

\* /api/scrape-and-save: the year loop and the consolidation (SpecRun) have
\* produced dataToSave
SaveScrape ==
  /\ revision = "json-storage"
  /\ save.pc = "idle"
  /\ saves < MaxSaves
  /\ saves' = saves + 1
  /\ save' = [pc |-> "open", payload |-> saves + 1, outcome |-> "none",
              status |-> StreamStatus]
  /\ UNCHANGED <<revision, now, ticks, file, cachedData, lastLoaded, reqs,
                 lastSaved, dataCache, yreqs>>

\* variant: the cache is cleared before the file is written
SaveOpenClearsFirst ==
  /\ save.pc = "open"
  /\ \E opened \in BOOLEAN :
       IF opened
       THEN /\ file' = PartialFile
            /\ lastSaved' = NullData
            /\ save' = [save EXCEPT !.pc = "writing"]
       ELSE /\ save' = [save EXCEPT !.pc = "idle", !.payload = NullData,
                                      !.outcome = "fatal"]
            /\ UNCHANGED <<file, lastSaved>>
  /\ cachedData' = NullData
  /\ lastLoaded' = NullTime
  /\ UNCHANGED <<revision, now, ticks, reqs, saves, dataCache, yreqs>>

\* fs.writeFile opens the file, truncating it, or is rejected
SaveOpen ==
  /\ save.pc = "open"
  /\ \E opened \in BOOLEAN :
       IF opened
       THEN /\ file' = PartialFile
            /\ lastSaved' = NullData
            /\ save' = [save EXCEPT !.pc = "writing"]
       ELSE /\ save' = [save EXCEPT !.pc = "idle", !.payload = NullData,
                                      !.outcome = "fatal"]
            /\ UNCHANGED <<file, lastSaved>>
  /\ UNCHANGED <<revision, now, ticks, cachedData, lastLoaded, reqs, saves,
                 dataCache, yreqs>>

\* fs.writeFile writes the JSON text, or is rejected with the file truncated
SaveWrite ==
  /\ save.pc = "writing"
  /\ \E written \in BOOLEAN :
       IF written
       THEN /\ file' = WholeFile(save.payload)
            /\ save' = [save EXCEPT !.pc = "clear"]
       ELSE /\ save' = [save EXCEPT !.pc = "idle", !.payload = NullData,
                                      !.outcome = "fatal"]
            /\ UNCHANGED file
  /\ UNCHANGED <<revision, now, ticks, cachedData, lastLoaded, reqs, saves,
                 lastSaved, dataCache, yreqs>>

\* cachedData = null; lastLoaded = null; the response ends
SaveClear ==
  /\ save.pc = "clear"
  /\ cachedData' = NullData
  /\ lastLoaded' = NullTime
  /\ lastSaved' = save.payload
  /\ save' = [save EXCEPT !.pc = "idle", !.payload = NullData, !.outcome = "saved"]
  /\ UNCHANGED <<revision, now, ticks, file, reqs, saves, dataCache, yreqs>>

\* if (year < 2015 || year > 2024) return res.status(400)
YearRejected(y) == Less(y, MinYear) \/ Less(MaxYear, y)

\* variant: an entry whose age equals CACHE_DURATION is still served
EntryFreshInclusive(cache, y, t) ==
  y \in DOMAIN cache /\ t - cache[y].timestamp <= CacheDuration

\* cached && (Date.now() - cached.timestamp) < CACHE_DURATION
EntryFresh(cache, y, t) ==
  y \in DOMAIN cache /\ t - cache[y].timestamp < CacheDuration

\* /api/scrape-year/:year up to await scrapeYearData(year)
ScrapeYearStart(q, param) ==
  /\ revision = "scrape-cache"
  /\ yreqs[q].pc \in {"idle", "responded"}
  /\ LET y == ParseInt(param) IN
     yreqs' = [yreqs EXCEPT ![q] =
       IF YearRejected(y)
       THEN [pc |-> "responded", param |-> param, year |-> y,
             resp |-> [status |-> 400, payload |-> NullData, how |-> "rejected"]]
       ELSE IF EntryFresh(dataCache, y, now)
       THEN [pc |-> "responded", param |-> param, year |-> y,
             resp |-> [status |-> 200, payload |-> dataCache[y].data, how |-> "cached"]]
       ELSE [pc |-> "scraping", param |-> param, year |-> y, resp |-> NoResponse]]
  /\ UNCHANGED <<revision, now, ticks, file, cachedData, lastLoaded, reqs, save,
                 saves, lastSaved, dataCache>>

\* scrapeYearData(year) threw: the catch block answers 500
ScrapeYearFailed(q) ==
  /\ yreqs[q].pc = "scraping"
  /\ yreqs' = [yreqs EXCEPT ![q] =
       [@ EXCEPT !.pc = "responded",
                 !.resp = [status |-> 500, payload |-> NullData, how |-> "failed"]]]
  /\ UNCHANGED <<revision, now, ticks, file, cachedData, lastLoaded, reqs, save,
                 saves, lastSaved, dataCache>>

\* scrapeYearData(year) returned: dataCache.set(cacheKey, ...) and res.json
ScrapeYearDone(q) ==
  /\ yreqs[q].pc = "scraping"
  /\ \E d \in 1..NumVersions :
       /\ dataCache' = SetKey(dataCache, yreqs[q].year, [data |-> d, timestamp |-> now])
       /\ yreqs' = [yreqs EXCEPT ![q] =
            [@ EXCEPT !.pc = "responded",
                      !.resp = [status |-> 200, payload |-> d, how |-> "scraped"]]]
  /\ UNCHANGED <<revision, now, ticks, file, cachedData, lastLoaded, reqs, save,
                 saves, lastSaved>>

\* Date.now() is positive; the data file may exist when the process starts
InitServer ==
  /\ revision \in {"json-storage", "scrape-cache"}
  /\ now = 1
  /\ ticks = 0
  /\ file \in (IF revision = "json-storage" THEN {NoFile, WholeFile(OldPayload)}
                ELSE {NoFile})
  /\ cachedData = NullData
  /\ lastLoaded = NullTime
  /\ reqs = [e \in Endpoints |-> IdleReq]
  /\ save = IdleSave
  /\ saves = 0
  /\ lastSaved = NullData
  /\ dataCache = [y \in {} |-> NoEntry]
  /\ yreqs = [q \in YearReqs |-> IdleYearReq]
  /\ ConsIdle /\ ScrapeIdle /\ RunIdle /\ ParseIdle

NextServer ==
  \/ Tick /\ UNCHANGED <<consVars, scrapeVars, runVars, parseVars>>
  \/ \E e \in Endpoints : LoadStart(e) /\ UNCHANGED <<consVars, scrapeVars, runVars, parseVars>>
  \/ \E e \in Endpoints : LoadAccess(e) /\ UNCHANGED <<consVars, scrapeVars, runVars, parseVars>>
  \/ \E e \in Endpoints : LoadRead(e) /\ UNCHANGED <<consVars, scrapeVars, runVars, parseVars>>
  \/ \E e \in Endpoints : LoadStore(e) /\ UNCHANGED <<consVars, scrapeVars, runVars, parseVars>>
  \/ SaveScrape /\ UNCHANGED <<consVars, scrapeVars, runVars, parseVars>>
  \/ SaveOpen /\ UNCHANGED <<consVars, scrapeVars, runVars, parseVars>>
  \/ SaveWrite /\ UNCHANGED <<consVars, scrapeVars, runVars, parseVars>>
  \/ SaveClear /\ UNCHANGED <<consVars, scrapeVars, runVars, parseVars>>
  \/ \E q \in YearReqs, param \in YearParams :
        ScrapeYearStart(q, param) /\ UNCHANGED <<consVars, scrapeVars, runVars, parseVars>>
  \/ \E q \in YearReqs : ScrapeYearFailed(q) /\ UNCHANGED <<consVars, scrapeVars, runVars, parseVars>>
  \/ \E q \in YearReqs : ScrapeYearDone(q) /\ UNCHANGED <<consVars, scrapeVars, runVars, parseVars>>

SpecServer == InitServer /\ [][NextServer]_vars

(***************************************************************************)
(* parseChurchesFromHTML.  The page is the list of the elements matched by *)
(* a[href*="/churches/"], in document order.  Each anchor is given with    *)
(* what the callback reads of the document around it: the text of the      *)
(* element before its container, and the elements of the container in      *)
(* document order (tag and text), one of which is the link itself.         *)
(***************************************************************************)
NullRanking    == -1   \* let ranking = null
NullAttendance == -1   \* let attendance = null
MaxRanking     == 100
MinAttendance  == 1000
MaxAttendance  == 100000

LocationNotFound ==
  <<"L", "o", "c", "a", "t", "i", "o", "n", " ", "n", "o", "t", " ", "f", "o", "u", "n", "d">>
PastorNotFound ==
  <<"P", "a", "s", "t", "o", "r", " ", "n", "o", "t", " ", "f", "o", "u", "n", "d">>

Element(tag, text) == [tag |-> tag, text |-> text]
Anchor(before, nodes, link) == [before |-> before, nodes |-> nodes, link |-> link]

\* $link.prev().text()
LinkPrevText(a) == IF a.link > 1 THEN a.nodes[a.link - 1].text ELSE <<>>

\* const rankingSelectors = [...]
rankingSelectors(a) ==
  <<Trim(a.before), Trim(a.nodes[1].text), Trim(LinkPrevText(a))>>

\* rankMatch && parseInt(rankMatch[0]) <= 100
RankMatch(text) == AllDigits(text) /\ ParseInt(text) <= MaxRanking

\* the for..of loop over rankingSelectors: the first matching text decides
ScanRanking(a) ==
  LET sel  == rankingSelectors(a)
      hits == {i \in 1..Len(sel) : RankMatch(sel[i])}
  IN IF hits = {} THEN NullRanking
     ELSE ParseInt(sel[CHOOSE i \in hits : \A j \in hits : i <= j])

\* variant: the fallback counts from zero
FallbackFromZero(idx) == idx

\* ranking = index + 1
Fallback(idx) == idx + 1

\* if (!ranking): null and 0 are falsy
Ranking(a, idx) ==
  LET r == ScanRanking(a)
  IN IF r = NullRanking \/ r = 0 THEN Fallback(idx) ELSE r

\* $container.find('h1, h2, h3, h4, h5, h6').first().text().trim()
FirstHeadingText(a) ==
  LET hs == {i \in 1..Len(a.nodes) : a.nodes[i].tag = "h2"}
  IN IF hs = {} THEN <<>>
     ELSE Trim(a.nodes[CHOOSE i \in hs : \A j \in hs : i <= j].text)

ChurchName(a) ==
  LET t == Trim(a.nodes[a.link].text)
  IN IF t # <<>> THEN t ELSE FirstHeadingText(a)

IsLocation(text) == LocationPattern(text) /\ Len(text) < 50

PossiblePastor(text) == Trim(LastPart(text))

IsPastor(text) ==
  /\ Includes(text, "-")
  /\ Len(text) < 100
  /\ PossiblePastor(text) # <<>>
  /\ ~Includes(PossiblePastor(text), ",")
  /\ Len(PossiblePastor(text)) < 50

\* variant: the first qualifying text is kept
LocationFirstWins(a) ==
  LET qs == {i \in 1..Len(a.nodes) : IsLocation(Trim(a.nodes[i].text))}
  IN IF qs = {} THEN <<>>
     ELSE Trim(a.nodes[CHOOSE i \in qs : \A j \in qs : i <= j].text)

\* the first .each over $container.find('*'): every qualifying text overwrites
Location(a) ==
  LET qs == {i \in 1..Len(a.nodes) : IsLocation(Trim(a.nodes[i].text))}
  IN IF qs = {} THEN <<>>
     ELSE Trim(a.nodes[CHOOSE i \in qs : \A j \in qs : j <= i].text)

Pastor(a) ==
  LET qs == {i \in 1..Len(a.nodes) : IsPastor(Trim(a.nodes[i].text))}
  IN IF qs = {} THEN <<>>
     ELSE PossiblePastor(Trim(a.nodes[CHOOSE i \in qs : \A j \in qs : j <= i].text))

\* number >= 1000 && number <= 100000 for the number text.match finds
InRange(text) ==
  /\ NumberMatch(text) # <<>>
  /\ ParseInt(NumberMatch(text)) >= MinAttendance
  /\ ParseInt(NumberMatch(text)) <= MaxAttendance

\* the second .each: the first element whose match is in range sets
\* attendance, and !attendance keeps it afterwards
Attendance(a) ==
  LET qs == {i \in 1..Len(a.nodes) : InRange(Trim(a.nodes[i].text))}
  IN IF qs = {} THEN NullAttendance
     ELSE ParseInt(NumberMatch(Trim(a.nodes[CHOOSE i \in qs : \A j \in qs : i <= j].text)))

\* location || 'Location not found'
OrElse(text, sentinel) == IF text # <<>> THEN text ELSE sentinel

Church(a, idx) ==
  [name       |-> ChurchName(a),
   location   |-> OrElse(Location(a), LocationNotFound),
   pastor     |-> OrElse(Pastor(a), PastorNotFound),
   attendance |-> Attendance(a),
   ranking    |-> Ranking(a, idx)]

\* if (churchName && ranking)
Pushed(a, idx) == ChurchName(a) # <<>> /\ Ranking(a, idx) # 0

\* churches.sort((a, b) => a.ranking - b.ranking)
SortByRanking(list) == SortByKey(list, [i \in 1..Len(list) |-> list[i].ranking])

\* ---- the pages given to the parser ----
NoText == <<>>
NameA  == <<"A">>
NameB  == <<"B">>

\* <div><a href="/churches/a">A</a></div>
PlainAnchor   == Anchor(NoText, <<Element("a", NameA)>>, 1)
\* <div><a href="/churches/a"><img></a></div>: no link text, no heading
UnnamedAnchor == Anchor(NoText, <<Element("a", NoText)>>, 1)
\* <span>7</span><div><a href="/churches/b">B</a></div>
RankedAnchor  == Anchor(<<"7">>, <<Element("a", NameB)>>, 1)

Fillers == {PlainAnchor, UnnamedAnchor, RankedAnchor}

BeforeTexts == {NoText, <<"7">>, <<"1", "0", "1">>}
LeadElements == {<<>>, <<Element("span", <<"0">>)>>, <<Element("span", <<" ", "8">>)>>,
                 <<Element("h2", NameB)>>}
LinkTexts == {NameA, NoText}
Texts == {<<"5", "0", "0", " ", "2", "0", "0", "0">>, <<"3", "0", "0", "0">>,
          <<"D", "a", "l", "l", "a", "s", ",", " ", "T", "X">>, <<"S", "r", " ", "-", " ", "B", "o", "b">>,
          <<"R", "e", "n", "o", ",", " ", "N", "V">>, <<"J", "r", " ", "-", " ", "A", "n", "n">>}
TrailElements ==
  UNION {{[i \in 1..k |-> Element("span", f[i])] : f \in [1..k -> Texts]} :
           k \in 0..MaxTexts}

\* the examined anchor: a rank text before the container or none, an element
\* before the link or none, the link, up to MaxTexts elements after it
Probes ==
  {Anchor(b, lead \o <<Element("a", l)>> \o trail, Len(lead) + 1) :
     b \in BeforeTexts, lead \in LeadElements, l \in LinkTexts,
     trail \in TrailElements}

LongPages == {[i \in 1..ManyAnchors |-> PlainAnchor] \o <<a>> : a \in Fillers}

Pages ==
  {pre \o <<a>> \o post : pre \in SeqsUpTo(Fillers, MaxLead), a \in Probes,
                          post \in SeqsUpTo(Fillers, MaxTrail)}
  \cup LongPages

InitParse ==
  /\ html \in Pages
  /\ index = 0
  /\ parseChurches = <<>>
  /\ parsed = <<>>
  /\ ppc = "each"
  /\ ConsIdle /\ ScrapeIdle /\ RunIdle /\ ServerIdle

\* one callback of $('a[href*="/churches/"]').each
EachAnchor ==
  /\ ppc = "each"
  /\ index < Len(html)
  /\ parseChurches' =
       IF Pushed(html[index + 1], index)
       THEN Append(parseChurches, Church(html[index + 1], index))
       ELSE parseChurches
  /\ index' = index + 1
  /\ UNCHANGED <<html, parsed, ppc, consVars, scrapeVars, runVars, serverVars>>

\* return churches.sort(...)
ParseReturn ==
  /\ ppc = "each"
  /\ index = Len(html)
  /\ parsed' = SortByRanking(parseChurches)
  /\ ppc' = "returned"
  /\ UNCHANGED <<html, index, parseChurches, consVars, scrapeVars, runVars, serverVars>>

NextParse == EachAnchor \/ ParseReturn

SpecParse == InitParse /\ [][NextParse]_vars

(***************************************************************************)
(* Properties of consolidateChurchData (checked under SpecCons).           *)
(***************************************************************************)
YearsWith(obj, n) ==
  {y \in DOMAIN obj : \E i \in 1..Len(obj[y]) : obj[y][i].name = n}

InResult(res, n) == \E i \in 1..Len(res) : res[i].name = n

\* C1: a name is in the returned entity list if and only if records with that
\* name exist in at least 3 distinct years of the input.
C1_InOutputIffThreeDistinctYears ==
  cpc = "done" =>
    \A n \in Names :
      InResult(consolidated, n) <=> Cardinality(YearsWith(yearlyData, n)) >= 3

\* C2: every returned entity's data is strictly ascending by year, so no two
\* of its entries carry the same year.
C2_SeriesStrictlyAscending ==
  cpc = "done" =>
    \A i \in 1..Len(consolidated) :
      \A j \in 1..(Len(consolidated[i].data) - 1) :
        consolidated[i].data[j].year < consolidated[i].data[j + 1].year

\* the ranking of the last series entry, which carries the greatest year
RankOfGreatestYear(church) ==
  LET last == church.data[Len(church.data)] IN
  IF \A j \in 1..Len(church.data) : church.data[j].year <= last.year
  THEN last.ranking ELSE -1

\* C3: the returned entity list is ordered so that the ranking of the last
\* series entry (the entry with the greatest year) never decreases from one
\* entity to the next.
C3_OrderedByLatestRanking ==
  cpc = "done" =>
    /\ \A i \in 1..Len(consolidated) : RankOfGreatestYear(consolidated[i]) >= 1
    /\ \A i \in 1..(Len(consolidated) - 1) :
         RankOfGreatestYear(consolidated[i]) <= RankOfGreatestYear(consolidated[i + 1])

\* C3 witness: two entities were returned, the one met second during grouping
\* first, because its latest ranking is the smaller one.
C3_Witness ==
  /\ cpc = "done"
  /\ Len(consolidated) = 2
  /\ Len(yearlyData[FirstConsYear]) > 0
  /\ yearlyData[FirstConsYear][1].name = consolidated[2].name
  /\ consolidated[1].data[1].ranking > consolidated[2].data[1].ranking
  /\ RankOfGreatestYear(consolidated[1]) < RankOfGreatestYear(consolidated[2])

(***************************************************************************)
(* Properties of one scrapeYearData call (checked under SpecScrape).       *)
(***************************************************************************)
RECURSIVE Concat(_)
Concat(answers) ==
  IF answers = <<>> THEN <<>> ELSE Head(answers).churches \o Concat(Tail(answers))

NonEmptyPage(a) == a.status = "ok" /\ Len(a.churches) > 0
EmptyPage(a)    == a.status = "ok" /\ Len(a.churches) = 0
FailedFetch(a)  == a.status \in {"threw", "notok"}

LastLog == scrapeLog[Len(scrapeLog)]

\* C4: when pages 1..k-1 were fetched with records and page k was fetched
\* with none, no further page is fetched and the call returns exactly the
\* records of pages 1..k-1 in page order.
C4_StopsAtEmptyPage ==
  \A k \in 1..Len(served) :
    (EmptyPage(served[k]) /\ \A i \in 1..(k - 1) : NonEmptyPage(served[i])) =>
      /\ fetched = [i \in 1..k |-> i]
      /\ spc \in {"delay", "loop", "returned"}
      /\ churches = Concat(SubSeq(served, 1, k - 1))
      /\ spc = "returned" =>
            LastLog = [year |-> year, how |-> "returned",
                       churches |-> Concat(SubSeq(served, 1, k - 1))]

\* C4 witness: the call returned after page 3 came back empty.
C4_Witness ==
  /\ spc = "returned"
  /\ Len(served) = 3
  /\ NonEmptyPage(served[1]) /\ NonEmptyPage(served[2]) /\ EmptyPage(served[3])
  /\ churches = served[1].churches \o served[2].churches

\* C5: one call issues at most 10 fetches, for page numbers 1..10 only.
C5_AtMostTenFetches ==
  /\ Len(fetched) <= 10
  /\ \A i \in 1..Len(fetched) : fetched[i] \in 1..10

\* C5 witness: all ten pages were fetched and the call returned.
C5_Witness ==
  /\ spc = "returned"
  /\ Len(fetched) = 10
  /\ NonEmptyPage(served[10])

\* C6: a failed fetch of page 1 makes the call throw and return no records;
\* a failed fetch of a later page ends the call without an error, and the
\* call returns exactly the records of the earlier pages.
C6_FailurePolicy ==
  \A k \in 1..Len(served) :
    FailedFetch(served[k]) =>
      /\ k = Len(served)
      /\ IF fetched[k] = 1
         THEN /\ spc = "thrown"
              /\ LastLog.how = "thrown"
              /\ churches = <<>>
         ELSE /\ spc = "returned"
              /\ churches = Concat(SubSeq(served, 1, k - 1))
              /\ LastLog = [year |-> year, how |-> "returned", churches |-> churches]

\* C6 witness: page 3 failed after two pages with records, and the call
\* returned those.
C6_Witness ==
  /\ spc = "returned"
  /\ Len(served) = 3
  /\ FailedFetch(served[3])
  /\ Len(churches) >= 2

\* C8: consecutive page fetches of one call are at least 500 ms of completed
\* delay apart.
C8_DelayBetweenFetches ==
  \A i \in 1..(Len(fetchedAt) - 1) : fetchedAt[i + 1] - fetchedAt[i] >= 500

\* C8 witness: a second page was fetched.
C8_Witness ==
  /\ Len(fetched) >= 2
  /\ fetched[2] = 2
  /\ fetchedAt[2] >= 500

(***************************************************************************)
(* Properties of a full scrape run (checked under SpecRun).                *)
(***************************************************************************)
LoggedYears(how) ==
  {scrapeLog[i].year : i \in {j \in 1..Len(scrapeLog) : scrapeLog[j].how = how}}

ReturnedData ==
  [y \in LoggedYears("returned") |->
     (CHOOSE e \in {scrapeLog[i] : i \in 1..Len(scrapeLog)} :
        e.year = y /\ e.how = "returned").churches]

\* C7: a year whose scrape throws does not end the run: when the run is
\* done every configured year was scraped, in order, the years that threw
\* are exactly the years of the errors list, and the consolidation is that
\* of the records the other years returned.
C7_FailedYearsDoNotAbort ==
  rpc = "done" =>
    /\ [i \in 1..Len(scrapeLog) |-> scrapeLog[i].year] = years
    /\ {errors[i].year : i \in 1..Len(errors)} = LoggedYears("thrown")
    /\ Len(errors) = Cardinality(LoggedYears("thrown"))
    /\ runResult = consolidateChurchData(ReturnedData)

\* C7 witness: the first year failed, the others were scraped and an entity
\* with three years of records was consolidated from them.
C7_Witness ==
  /\ rpc = "done"
  /\ Len(errors) = 1
  /\ errors[1].year = FirstYear
  /\ DOMAIN allData = {years[i] : i \in 2..Len(years)}
  /\ Len(runResult) >= 1

(***************************************************************************)
(* Properties of the caches of the running server (checked under           *)
(* SpecServer).                                                            *)
(***************************************************************************)
LoadStarts(e) == reqs[e].pc \in {"idle", "responded"} /\ reqs'[e] # reqs[e]
LoadEnds(e)   == reqs[e].pc \in {"access", "read", "store"} /\ reqs'[e].pc = "responded"
YearStarts(q) == yreqs[q].pc \in {"idle", "responded"} /\ yreqs'[q] # yreqs[q]
YearEnds(q)   == yreqs[q].pc = "scraping" /\ yreqs'[q].pc = "responded"

\* a read is answered from the cache, without a recomputation, exactly when
\* an entry exists and is younger than its lifetime
HitIffFresh ==
  /\ \A e \in Endpoints :
       LoadStarts(e) =>
         /\ UNCHANGED <<cachedData, lastLoaded>>
         /\ IF cachedData # NullData /\ lastLoaded # NullTime /\ now - lastLoaded < 60000
            THEN /\ reqs'[e].pc = "responded"
                 /\ reqs'[e].resp.how = "cached"
                 /\ reqs'[e].resp.payload = cachedData
            ELSE reqs'[e].pc = "access"
  /\ \A q \in YearReqs :
       (YearStarts(q) /\ yreqs'[q].resp.status # 400) =>
         /\ UNCHANGED dataCache
         /\ IF /\ yreqs'[q].year \in DOMAIN dataCache
               /\ now - dataCache[yreqs'[q].year].timestamp < 86400000
            THEN /\ yreqs'[q].pc = "responded"
                 /\ yreqs'[q].resp.how = "cached"
                 /\ yreqs'[q].resp.payload = dataCache[yreqs'[q].year].data
            ELSE yreqs'[q].pc = "scraping"

\* a recomputation that yields a payload stores it stamped with the current
\* time and returns it
StoresWhatItReturns ==
  /\ \A e \in Endpoints :
       (LoadEnds(e) /\ reqs'[e].resp.payload # NullData) =>
         /\ cachedData' = reqs'[e].resp.payload
         /\ lastLoaded' = now
  /\ \A q \in YearReqs :
       (YearEnds(q) /\ yreqs'[q].resp.payload # NullData) =>
         /\ yreqs'[q].resp.status = 200
         /\ dataCache'[yreqs[q].year] = [data |-> yreqs'[q].resp.payload, timestamp |-> now]

\* C9 as stated: a cached read is answered from the cache exactly when an
\* entry exists and now - createdAt < TTL; otherwise it recomputes, stores
\* the result stamped with the current time and returns it.
C9_Original ==
  [][/\ HitIffFresh
     /\ StoresWhatItReturns
     /\ \A e \in Endpoints : LoadEnds(e) => reqs'[e].resp.payload # NullData
     /\ \A q \in YearReqs : YearEnds(q) => yreqs'[q].resp.payload # NullData]_vars

\* C9 as amended: a cached read is answered from the cache exactly when an
\* entry exists and now - createdAt < TTL; otherwise it recomputes, and when
\* the recomputation yields a payload it stores that payload stamped with
\* the current time and returns it, while a recomputation that yields none
\* (no data file, a failed read or parse, a scrape that throws) returns no
\* payload and leaves the cache as it was.
C9_CachedRead ==
  [][/\ HitIffFresh
     /\ StoresWhatItReturns
     /\ \A e \in Endpoints :
          (LoadEnds(e) /\ reqs'[e].resp.payload = NullData) =>
            UNCHANGED <<cachedData, lastLoaded>>
     /\ \A q \in YearReqs :
          (YearEnds(q) /\ yreqs'[q].resp.payload = NullData) =>
            UNCHANGED dataCache]_vars

\* C9 witness: a read was answered from an entry that had aged but was not
\* yet a minute old, after an earlier read had loaded and stored it.
C9_Witness ==
  \E e \in Endpoints :
    /\ reqs[e].pc = "responded"
    /\ reqs[e].resp.how = "cached"
    /\ reqs[e].resp.payload = cachedData
    /\ lastLoaded # NullTime
    /\ now - lastLoaded > 0
    /\ now - lastLoaded < 60000

\* C10: once a scrape-and-save has written the data file and cleared the
\* cache, a read that starts afterwards and returns a payload returns the
\* payload of that scrape-and-save, whatever reads were in flight during
\* the save.
C10_ReadsAfterSaveReturnSaved ==
  \A e \in Endpoints :
    (/\ reqs[e].pc = "responded"
     /\ reqs[e].after # NullData
     /\ lastSaved = reqs[e].after
     /\ reqs[e].resp.payload # NullData) =>
      reqs[e].resp.payload = reqs[e].after

\* C11: at most one computation per cache key is in flight: never two file
\* loads of the dataset at once, never two scrapes of the same year at once.
C11_OneComputationPerKey ==
  /\ Cardinality({e \in Endpoints : reqs[e].pc \in {"access", "read", "store"}}) <= 1
  /\ \A q1 \in YearReqs, q2 \in YearReqs :
       (q1 # q2 /\ yreqs[q1].pc = "scraping" /\ yreqs[q2].pc = "scraping") =>
         yreqs[q1].year # yreqs[q2].year

\* C12: whatever step of scrape-and-save fails or is interrupted, the data
\* file is absent or holds one complete payload, never a partial one.
C12_FileNeverPartial == file.state \in {"none", "whole"}

\* the parameter is the decimal numeral of an integer in 2015..2024
IntegerInRange(param) ==
  /\ param # <<>>
  /\ \A i \in 1..Len(param) : IsDigit(param[i])
  /\ DecimalValue(param) >= 2015
  /\ DecimalValue(param) <= 2024

\* C13: a scrape-year request whose parameter is not an integer in
\* 2015..2024 is answered 400, without a scrape and with dataCache unchanged.
C13_BadYearRejected ==
  \A q \in YearReqs :
    (yreqs[q].pc # "idle" /\ ~IntegerInRange(yreqs[q].param)) =>
      /\ yreqs[q].pc = "responded"
      /\ yreqs[q].resp.status = 400
      /\ yreqs[q].year \notin DOMAIN dataCache

\* C14: a failed read of the data file in get-data or data-info and a failed
\* write in scrape-and-save are answered with a 5xx status.
C14_IoFailureIs5xx ==
  /\ \A e \in Endpoints :
       (reqs[e].pc = "responded" /\ reqs[e].resp.how = "failed") =>
         reqs[e].resp.status >= 500
  /\ save.outcome = "fatal" => save.status >= 500

ReadFails(e) == LoadEnds(e) /\ reqs'[e].resp.how \in {"failed", "unparsable"}
WriteFails   == save.pc \in {"open", "writing"} /\ save'.outcome = "fatal"

\* a failing read or write leaves cachedData and lastLoaded as they were
FailureKeepsCache ==
  ((\E e \in Endpoints : ReadFails(e)) \/ WriteFails) =>
    UNCHANGED <<cachedData, lastLoaded>>

\* C15: a failing read or write leaves cachedData and lastLoaded unchanged,
\* and a read that fails while a payload is cached still returns that payload.
C15_CacheAuthoritativeOnFailure ==
  [][/\ FailureKeepsCache
     /\ \A e \in Endpoints :
          (ReadFails(e) /\ cachedData # NullData) =>
            reqs'[e].resp.payload = cachedData]_vars

\* C16: dataCache changes only when a scrape of a year returned, and then
\* only at that year's key, which had no entry or an expired one.
C16_EntriesOnlyFromScrapes ==
  [][dataCache' # dataCache =>
       \E q \in YearReqs :
         /\ YearEnds(q)
         /\ yreqs'[q].resp.status = 200
         /\ DOMAIN dataCache' = (DOMAIN dataCache) \cup {yreqs[q].year}
         /\ \A z \in (DOMAIN dataCache) \ {yreqs[q].year} : dataCache'[z] = dataCache[z]
         /\ yreqs[q].year \in DOMAIN dataCache =>
              now - dataCache[yreqs[q].year].timestamp >= 86400000]_vars

\* C17: get-data answers 404 as long as nothing was persisted, and answers
\* with the persisted payload once a scrape-and-save has completed.
C17_GetDataFollowsFile ==
  LET r == reqs["get-data"] IN
  r.pc = "responded" =>
    /\ file.state = "none" => r.resp.status = 404
    /\ (r.after # NullData /\ lastSaved = r.after) =>
         (r.resp.status = 200 /\ r.resp.payload = r.after)

(***************************************************************************)
(* Claims about parseChurchesFromHTML.                                     *)
(***************************************************************************)
\* C18: every record the parser collects or returns has a ranking that is
\* an integer from 1 to 100.
C18_RankWithinHundred ==
  /\ \A i \in 1..Len(parseChurches) :
       parseChurches[i].ranking >= 1 /\ parseChurches[i].ranking <= 100
  /\ \A i \in 1..Len(parsed) : parsed[i].ranking >= 1 /\ parsed[i].ranking <= 100

PureIntegerUpTo100(text) ==
  /\ text # <<>>
  /\ \A i \in 1..Len(text) : IsDigit(text[i])
  /\ DecimalValue(text) <= 100

\* none of the three rank candidate texts of the anchor is a pure integer <= 100
NoRankCandidate(a) ==
  /\ ~PureIntegerUpTo100(Trim(a.before))
  /\ ~PureIntegerUpTo100(Trim(a.nodes[1].text))
  /\ a.link > 1 => ~PureIntegerUpTo100(Trim(a.nodes[a.link - 1].text))

\* the callback of the anchor at the current index pushes a record
Pushes ==
  /\ ppc = "each"
  /\ index' = index + 1
  /\ Len(parseChurches') = Len(parseChurches) + 1

\* C19: when no rank candidate text of an anchor is a pure integer <= 100,
\* the record pushed for it has the anchor's 1-based position among all
\* matched anchors as its ranking.
C19_FallbackRankIsPosition ==
  [][(Pushes /\ NoRankCandidate(html[index + 1])) =>
       parseChurches'[Len(parseChurches')].ranking = index + 1]_vars

\* C19 witness: a record was pushed with the fallback ranking for an anchor
\* that follows an anchor without a record, so that its position among the
\* matched anchors differs from its position among the records.
C19_Witness ==
  /\ ppc = "each"
  /\ index >= 2
  /\ parseChurches # <<>>
  /\ Len(parseChurches) < index
  /\ NoRankCandidate(html[index])
  /\ parseChurches[Len(parseChurches)].ranking = index
  /\ \E i \in 1..(index - 1) : html[i] = UnnamedAnchor

\* every word of 3 to 6 digits of a text, left to right
RECURSIVE NumbersOf(_)
NumbersOf(t) ==
  IF t = <<>> THEN <<>>
  ELSE IF ~IsWordChar(Head(t)) THEN NumbersOf(Tail(t))
  ELSE LET w    == WordPrefix(t)
           rest == NumbersOf(SubSeq(t, Len(w) + 1, Len(t)))
       IN IF AllDigits(w) /\ Len(w) >= 3 /\ Len(w) <= 6
          THEN <<DecimalValue(w)>> \o rest ELSE rest

\* the numbers of all texts of the container in scan order
RECURSIVE NumbersIn(_)
NumbersIn(nodes) ==
  IF nodes = <<>> THEN <<>>
  ELSE NumbersOf(Trim(Head(nodes).text)) \o NumbersIn(Tail(nodes))

FirstQualifying(nodes) ==
  LET ns == NumbersIn(nodes)
      qs == {i \in 1..Len(ns) : ns[i] >= 1000 /\ ns[i] <= 100000}
  IN IF qs = {} THEN NullAttendance
     ELSE ns[CHOOSE i \in qs : \A j \in qs : i <= j]

\* C20: the attendance of a pushed record is the first 3-to-6-digit number
\* with a value in 1000..100000, in scan order over the container's texts
\* and within each text.
C20_AttendanceIsFirstQualifying ==
  [][Pushes =>
       parseChurches'[Len(parseChurches')].attendance =
         FirstQualifying(html[index + 1].nodes)]_vars

(***************************************************************************)
(* Further properties of one scrapeYearData call (checked under            *)
(* SpecScrape).                                                            *)
(***************************************************************************)
SortedByRanking(list) ==
  \A i \in 1..Len(list), j \in 1..Len(list) :
    i < j => list[i].ranking <= list[j].ranking

\* C21: the list a scrapeYearData call returns is sorted ascending by
\* ranking over all of its pages.
C21_ReturnedSortedAcrossPages ==
  \A k \in 1..Len(scrapeLog) :
    scrapeLog[k].how = "returned" => SortedByRanking(scrapeLog[k].churches)

(***************************************************************************)
(* Properties of consolidateChurchData over insertion orders and places    *)
(* (checked under SpecInsert).                                             *)
(***************************************************************************)
\* C22: whatever the order in which the years were inserted into the
\* mapping, the returned entity list is the one returned for the same
\* mapping with the years inserted in ascending order.
C22_IndependentOfInsertionOrder ==
  cpc = "done" => consolidated = ConsolidateEntries(yearlyData, YearsAscending)

\* C22 witness: the years were inserted in an order for which going through
\* them as inserted would have given another entity list.
C22_Witness ==
  /\ cpc = "done"
  /\ keyOrder # YearsAscending
  /\ Len(consolidated) >= 2
  /\ ConsolidateEntries(yearlyData, keyOrder) # consolidated

\* the first record named n the grouping meets: in the least year that has
\* one, the first of that year's list
FirstRecordOf(obj, n) ==
  LET ys == YearsWith(obj, n)
      y  == CHOOSE a \in ys : \A b \in ys : a <= b
      is == {i \in 1..Len(obj[y]) : obj[y][i].name = n}
  IN obj[y][CHOOSE i \in is : \A j \in is : i <= j]

\* C23: an entity's location and pastor are those of the first record of
\* its name met during grouping.
C23_FirstSeenPlaceKept ==
  cpc = "done" =>
    \A k \in 1..Len(consolidated) :
      /\ consolidated[k].location = FirstRecordOf(yearlyData, consolidated[k].name).location
      /\ consolidated[k].pastor = FirstRecordOf(yearlyData, consolidated[k].name).pastor

\* C23 witness: an entity was returned whose name has a later record with
\* another location and pastor.
C23_Witness ==
  /\ cpc = "done"
  /\ \E k \in 1..Len(consolidated) :
       \E y \in ConsYears : \E i \in 1..Len(yearlyData[y]) :
         /\ yearlyData[y][i].name = consolidated[k].name
         /\ yearlyData[y][i].location # consolidated[k].location
         /\ yearlyData[y][i].pastor # consolidated[k].pastor

(***************************************************************************)
(* Further properties of the running server (checked under SpecServer).    *)
(***************************************************************************)
\* the step of scrape-and-save that executes cachedData = null
ClearsCache == save.pc = "clear" /\ save'.pc = "idle"

\* C24: scrape-and-save clears the cache only when its write has completed,
\* the file then holding the payload it wrote; the cache never turns null in
\* any other step, and a failing write leaves the cache as it was, with no
\* clear to follow.
C24_ClearOnlyAfterWrite ==
  [][/\ ClearsCache => file = WholeFile(save.payload)
     /\ (cachedData # NullData /\ cachedData' = NullData) => ClearsCache
     /\ (lastLoaded # NullTime /\ lastLoaded' = NullTime) => ClearsCache
     /\ WriteFails =>
          /\ UNCHANGED <<cachedData, lastLoaded>>
          /\ save'.pc = "idle"]_vars

\* C24 witness: a read had loaded and cached the old payload, and a
\* scrape-and-save that wrote its payload has cleared the cache.
C24_Witness ==
  /\ save.outcome = "saved"
  /\ file = WholeFile(lastSaved)
  /\ cachedData = NullData
  /\ \E e \in Endpoints :
       /\ reqs[e].pc = "responded"
       /\ reqs[e].resp.how = "loaded"
       /\ reqs[e].resp.payload = OldPayload

(***************************************************************************)
(* Further properties of parseChurchesFromHTML (checked under SpecParse).  *)
(***************************************************************************)
\* the texts of the container that qualify as a location, as a pastor
LocationTexts(a) == {i \in 1..Len(a.nodes) : IsLocation(Trim(a.nodes[i].text))}
PastorTexts(a)   == {i \in 1..Len(a.nodes) : IsPastor(Trim(a.nodes[i].text))}

Last(is) == CHOOSE i \in is : \A j \in is : j <= i

\* C25: the location and the pastor of a pushed record come from the last
\* qualifying text of the container in scan order, and are the sentinel
\* strings when no text qualifies.
C25_LastQualifyingTextWins ==
  [][Pushes =>
       LET a == html[index + 1]
           r == parseChurches'[Len(parseChurches')]
       IN /\ r.location =
               IF LocationTexts(a) = {} THEN LocationNotFound
               ELSE Trim(a.nodes[Last(LocationTexts(a))].text)
          /\ r.pastor =
               IF PastorTexts(a) = {} THEN PastorNotFound
               ELSE PossiblePastor(Trim(a.nodes[Last(PastorTexts(a))].text))]_vars

\* C25 witness: a record was pushed for an anchor whose container holds two
\* qualifying location texts that differ, and the record has the later one.
C25_Witness ==
  /\ ppc = "each"
  /\ index >= 1
  /\ parseChurches # <<>>
  /\ LET a == html[index]
         r == parseChurches[Len(parseChurches)]
     IN /\ ChurchName(a) = r.name
        /\ \E i \in LocationTexts(a), j \in LocationTexts(a) :
             /\ i < j
             /\ a.nodes[i].text # a.nodes[j].text
             /\ r.location = a.nodes[j].text

(***************************************************************************)
(* Termination of one scrapeYearData call (checked under FairScrape).      *)
(***************************************************************************)
\* the call has returned or thrown
Ended == spc \in {"returned", "thrown"}

\* the body of an iteration ends: the fetch fails or the page is parsed
IterationEnds == spc = "fetching" /\ spc' # "fetching"

NoPageFetchedTwice(list) ==
  \A i \in 1..Len(list), j \in 1..Len(list) : i # j => list[i] # list[j]

\* C26: every iteration advances the page number, clears hasMorePages or
\* ends the call; no page is fetched twice; and the call ends.
C26_Terminates ==
  /\ [][/\ IterationEnds =>
            \/ page' = page + 1
            \/ hasMorePages /\ ~hasMorePages'
            \/ Ended'
        /\ NoPageFetchedTwice(fetched')]_vars
  /\ <>Ended

\* C26 witness: the call returned after fetching all ten pages.
C26_Witness ==
  /\ spc = "returned"
  /\ Len(fetched) = 10
  /\ page = 11
  /\ hasMorePages

(***************************************************************************)
(* Further properties of a full scrape run (checked under SpecRun).        *)
(***************************************************************************)
ConfiguredYears == {years[i] : i \in 1..Len(years)}

ErrorsOf(y) == {i \in 1..Len(errors) : errors[i].year = y}

LoopFinished == rpc = "done" \/ (rpc = "loop" /\ yearIdx > Len(years))

\* C27: when the year loop has finished, every configured year either is a
\* key of allData and has no entry in errors, or is no key of allData and
\* has exactly one entry in errors; and yearsCovered lists exactly the
\* years whose list in allData is non-empty.
C27_YearsAccountedFor ==
  /\ LoopFinished =>
       /\ DOMAIN allData \subseteq ConfiguredYears
       /\ \A i \in 1..Len(errors) : errors[i].year \in ConfiguredYears
       /\ \A y \in ConfiguredYears :
            \/ y \in DOMAIN allData /\ ErrorsOf(y) = {}
            \/ y \notin DOMAIN allData /\ Cardinality(ErrorsOf(y)) = 1
  /\ rpc = "done" =>
       /\ {yearsCovered[i] : i \in 1..Len(yearsCovered)} =
            {y \in DOMAIN allData : allData[y] # <<>>}
       /\ \A i \in 1..Len(yearsCovered), j \in 1..Len(yearsCovered) :
            i # j => yearsCovered[i] # yearsCovered[j]

\* C27 witness: a run ended with a failed year, a year that returned no
\* record and a year that returned records.
C27_Witness ==
  /\ rpc = "done"
  /\ errors # <<>>
  /\ \E y \in DOMAIN allData : allData[y] = <<>>
  /\ yearsCovered # <<>>

====
